---- MODULE Spec2Model ----
(***************************************************************************)
(* streamlit_folium: the script assembler (_generate_leaflet_string and    *)
(* generate_leaflet_string), the re-mount key (generate_js_hash) and the   *)
(* component entry point (st_folium).                                      *)
(*                                                                         *)
(* Text is modelled as it is in the program: a string is the sequence of   *)
(* its characters, str.replace / re.sub / "in" work on characters.  A     *)
(* library-generated identifier (uuid4().hex, 32 hex characters) is        *)
(* shortened to two characters of a..d; stable identifiers are built from  *)
(* base_id, "_" and decimal child indices exactly as the f-string does.    *)
(***************************************************************************)
EXTENDS Naturals, Sequences, FiniteSets, TLC

VARIABLES fig,      \* the live object tree handed to the entry points
          twin,     \* an independently built tree of the same structure
          out,      \* what the last assembler call on fig returned / raised
          twinOut,  \* the same for twin
          pc,       \* position of the driver
          nextId,   \* how many library identifiers were drawn so far
          payload,  \* arguments of the last _component_func invocation
          hashIn    \* inputs of generate_js_hash under check

vars == <<fig, twin, out, twinOut, pc, nextId, payload, hashIn>>

\* Python's None, where a string or an object is expected
None == <<"NoneType">>

(***************************************************************************)
(* Bounds                                                                  *)
(***************************************************************************)
MaxNodes == 3        \* elements of a tree below its root
MaxOps == 3          \* children appended to a tree between re-renders

(***************************************************************************)
(* Characters and strings                                                  *)
(***************************************************************************)
Digits == <<"0", "1", "2", "3", "4", "5", "6", "7", "8", "9">>
DigitSet == {Digits[i] : i \in 1..10}
LowerSet == {"a", "b", "c", "d", "e", "f", "g", "h", "i", "j", "k", "l", "m",
             "n", "o", "p", "q", "r", "s", "t", "u", "v", "w", "x", "y", "z"}

\* str(int) for a non-negative integer
RECURSIVE IntToStr(_)
IntToStr(n) ==
    IF n < 10 THEN <<Digits[n + 1]>>
    ELSE IntToStr(n \div 10) \o <<Digits[(n % 10) + 1]>>

StartsWithAt(s, i, sub) ==
    /\ i + Len(sub) - 1 <= Len(s)
    /\ \A j \in 1..Len(sub) : s[i + j - 1] = sub[j]

\* Python's `sub in s`
Contains(s, sub) == \E i \in 1..(Len(s) + 1) : StartsWithAt(s, i, sub)

Min(S) == CHOOSE j \in S : \A k \in S : j <= k

\* every index (1-based) where sub occurs in s
Matches(s, sub) == {j \in 1..(Len(s) + 1) : StartsWithAt(s, j, sub)}

\* first index at or after i where sub occurs in s, 0 if none
FindFrom(s, i, sub) ==
    LET M == {j \in Matches(s, sub) : j >= i}
    IN  IF M = {} THEN 0 ELSE Min(M)

\* Python's s.replace(old, new) for a non-empty old: the occurrences of old
\* (M), left to right and non-overlapping, are replaced by new
RECURSIVE ReplaceFrom(_, _, _, _, _)
ReplaceFrom(s, i, old, new, M) ==
    LET N == {j \in M : j >= i}
    IN  IF N = {} THEN SubSeq(s, i, Len(s))
        ELSE SubSeq(s, i, Min(N) - 1) \o new
             \o ReplaceFrom(s, Min(N) + Len(old), old, new, M)

\* an empty old matches before every character and at the end
RECURSIVE Interleave(_, _, _)
Interleave(s, i, new) ==
    IF i > Len(s) THEN new ELSE new \o <<s[i]>> \o Interleave(s, i + 1, new)

Replace(s, old, new) ==
    IF old = <<>> THEN Interleave(s, 1, new)
    ELSE ReplaceFrom(s, 1, old, new, Matches(s, old))

(***************************************************************************)
(* The object tree (folium elements as the program reads them)             *)
(***************************************************************************)
MapName == <<"m", "a", "p">>
LayerName == <<"l", "a", "y", "e", "r">>
ControlName == <<"c", "o", "n", "t", "r", "o", "l">>
DualMapName == <<"d", "u", "a", "l", "m", "a", "p">>
FeatureGroupName == <<"f", "e", "a", "t", "u", "r", "e", "_",
                      "g", "r", "o", "u", "p">>
US == <<"_">>
NL == <<"\n">>

HexLetters == <<"a", "b", "c", "d">>
\* the n-th identifier the library draws (distinct for n in 0..15)
RandomId(n) == <<HexLetters[((n \div 4) % 4) + 1], HexLetters[(n % 4) + 1]>>
RandomIds == {RandomId(n) : n \in 0..15}

\* Element.get_name(): f"{_name.lower()}_{_id}"
get_name(m) == m._name \o US \o m._id

\* get_full_id: the first sub-map stands for a DualMap
get_full_id(m) ==
    LET e == IF m._name = DualMapName THEN m.subs[1] ELSE m
    IN  e._name \o US \o e._id

Node(name, id, fail, children, subs) ==
    [_name |-> name, _id |-> id, fail |-> fail, cap |-> <<>>,
     ckey |-> name \o US \o id, _children |-> children, subs |-> subs]

(***************************************************************************)
(* Building input trees.  A structure is what two independently built      *)
(* trees share: kinds, render behaviour and children, without identifiers. *)
(* fail is how the element's template behaves when rendered:               *)
(*   "none"   script(m) returns the snippet                                *)
(*   "undef"  script(m) raises UndefinedError, the raw template renders    *)
(*   "undef2" script(m) and the raw template both raise UndefinedError     *)
(*   "attr"   script(m) raises AttributeError                              *)
(*   "other"  script(m) raises an exception of another type                *)
(***************************************************************************)
KindName(kind) ==
    CASE kind = "map" -> MapName
      [] kind = "layer" -> LayerName
      [] kind = "control" -> ControlName
      [] kind = "dualmap" -> DualMapName
      [] OTHER -> FeatureGroupName

Struct(kind, fail, kids, subs) ==
    [kind |-> kind, fail |-> fail, kids |-> kids, subs |-> subs]

LeafStructs == {Struct("layer", f, <<>>, <<>>) : f \in {"none", "attr"}}

ChildAttrs ==
    {<<"layer", "none">>, <<"control", "none">>, <<"layer", "undef">>,
     <<"layer", "undef2">>, <<"layer", "attr">>, <<"layer", "other">>}

RECURSIVE SumSeq(_)
SumSeq(g) == IF g = <<>> THEN 0 ELSE Head(g) + SumSeq(Tail(g))

\* How many children each of n elements has, the n elements and their
\* children being at most `room` elements together.
Shapes(n, room) ==
    IF n > room THEN {}
    ELSE {g \in [1..n -> 0..(room - n)] : SumSeq(g) <= room - n}

\* a child (one of attrs) with k children of its own
ChildrenWith(attrs, k) ==
    {Struct(a[1], a[2], ks, <<>>) : a \in attrs, ks \in [1..k -> LeafStructs]}

\* every sequence of children of the shape g
RECURSIVE KidSeqs(_, _)
KidSeqs(attrs, g) ==
    IF g = <<>> THEN {<<>>}
    ELSE {<<c>> \o rest : c \in ChildrenWith(attrs, Head(g)),
                          rest \in KidSeqs(attrs, Tail(g))}

\* every sequence of children holding at most room elements
KidsWithin(room) ==
    UNION {KidSeqs(ChildAttrs, g) :
             g \in UNION {Shapes(n, room) : n \in 0..room}}

\* a root whose own script fails is tried with at most one child: the call
\* ends, or recovers, before its children matter
RootFails == {"undef", "attr"}

MapStructs ==
    {Struct("map", "none", ks, <<>>) : ks \in KidsWithin(MaxNodes)}
    \cup {Struct("map", f, ks, <<>>) : f \in RootFails, ks \in KidsWithin(1)}

DualStructs ==
    {Struct("dualmap", "none", <<>>, ss) :
        ss \in UNION {KidSeqs({<<"map", "none">>}, g) : g \in Shapes(2, MaxNodes)}}

RootStructs == MapStructs \cup DualStructs

\* The identifier the library hands to the n-th element of a tree: two
\* independent builds (seed 1, seed 2) draw different identifiers.
IdAt(seed, n) == IF seed = 1 THEN RandomId(n) ELSE RandomId(15 - n)

\* construction order of the i-th child / sub-map among kids
RECURSIVE SlotOf(_, _)
SlotOf(kids, i) ==
    IF i = 1 THEN 1 ELSE SlotOf(kids, i - 1) + 1 + Len(kids[i - 1].kids)

BuildLeaf(s, seed, n) ==
    Node(KindName(s.kind), IdAt(seed, n), s.fail, <<>>, <<>>)

BuildChild(s, seed, n) ==
    Node(KindName(s.kind), IdAt(seed, n), s.fail,
         [j \in 1..Len(s.kids) |-> BuildLeaf(s.kids[j], seed, n + j)], <<>>)

BuildRoot(s, seed) ==
    Node(KindName(s.kind), IdAt(seed, 0), s.fail,
         [i \in 1..Len(s.kids) |-> BuildChild(s.kids[i], seed, SlotOf(s.kids, i))],
         [i \in 1..Len(s.subs) |-> BuildChild(s.subs[i], seed, SlotOf(s.subs, i))])

\* the structure of a live tree (identifiers and captured names dropped)
RECURSIVE StructOf(_)
StructOf(m) ==
    Struct(CASE m._name = MapName -> "map"
             [] m._name = LayerName -> "layer"
             [] m._name = ControlName -> "control"
             [] m._name = DualMapName -> "dualmap"
             [] OTHER -> "feature_group",
           m.fail,
           [i \in 1..Len(m._children) |-> StructOf(m._children[i])],
           [i \in 1..Len(m.subs) |-> StructOf(m.subs[i])])

(***************************************************************************)
(* fig.render(): a control formats the names of the layers beside it into  *)
(* its own fields (LayerControl.render); generation reads them later.      *)
(***************************************************************************)
IsLayer(m) == m._name \in {LayerName, FeatureGroupName}

LayerNames(children) ==
    LET ls == SelectSeq(children, IsLayer)
    IN  [i \in 1..Len(ls) |-> get_name(ls[i])]

RECURSIVE render(_)
render(m) ==
    [m EXCEPT
        !._children =
            [i \in 1..Len(m._children) |->
                LET c == render(m._children[i])
                IN  IF c._name = ControlName
                    THEN [c EXCEPT !.cap = LayerNames(m._children)]
                    ELSE c],
        !.subs = [i \in 1..Len(m.subs) |-> render(m.subs[i])]]

(***************************************************************************)
(* Rendering one element                                                   *)
(***************************************************************************)
RECURSIVE JoinCaps(_)
JoinCaps(cap) ==
    IF cap = <<>> THEN <<>> ELSE Head(cap) \o <<",">> \o JoinCaps(Tail(cap))

\* the text of the element's script macro: declares the element under its
\* current name, lists the names it captured, refers to its parent's name
Snippet(m, parent) == get_name(m) \o <<"=">> \o JoinCaps(m.cap) \o parent \o <<";">>

\* a DualMap's own script: syncs its two sub-maps
SyncSnippet(m) ==
    get_name(m.subs[1]) \o <<"~">> \o get_name(m.subs[2]) \o <<";">>

\* m._template.module.script(m): [exc, text]
script(m, parent) ==
    CASE m.fail = "none" ->
            [exc |-> "none",
             text |-> IF m._name = DualMapName THEN SyncSnippet(m)
                      ELSE Snippet(m, parent)]
      [] m.fail \in {"undef", "undef2"} -> [exc |-> "UndefinedError", text |-> <<>>]
      [] m.fail = "attr" -> [exc |-> "AttributeError", text |-> <<>>]
      [] OTHER -> [exc |-> "OtherError", text |-> <<>>]

\* m._template.render(this=m, kwargs={}): [exc, text]
template_render(m, parent) ==
    IF m.fail = "undef2" THEN [exc |-> "UndefinedError", text |-> <<>>]
    ELSE [exc |-> "none", text |-> Snippet(m, parent)]

\* try: script(m)  except UndefinedError: template.render(this=m, kwargs={})
RenderOwn(m, parent) ==
    LET r == script(m, parent)
    IN  IF r.exc = "UndefinedError" THEN template_render(m, parent) ELSE r

(***************************************************************************)
(* _generate_leaflet_string                                                *)
(***************************************************************************)
\* mappings[k] = v on a dict that keeps insertion order
Put(mappings, k, v) ==
    IF \E i \in 1..Len(mappings) : mappings[i].k = k
    THEN [i \in 1..Len(mappings) |->
            IF mappings[i].k = k THEN [k |-> k, v |-> v] ELSE mappings[i]]
    ELSE Append(mappings, [k |-> k, v |-> v])

\* faulty variant of RecordMapping: key and value exchanged
RecordMappingSwapped(mappings, m, base_id) == Put(mappings, base_id, m._id)

\* mappings[m._id] = base_id, executed before m._id = base_id
RecordMapping(mappings, m, base_id) == Put(mappings, m._id, base_id)

\* faulty variant of ChildBaseId: children counted from 1
ChildBaseIdFromOne(base_id, idx) == base_id \o US \o IntToStr(idx + 1)

\* f"{base_id}_{idx}" with idx from enumerate (0-based)
ChildBaseId(base_id, idx) == base_id \o US \o IntToStr(idx)

Result(leaflet, mappings, m, exc) ==
    [leaflet |-> leaflet, mappings |-> mappings, m |-> m, exc |-> exc]

DefaultBaseId == <<"0">>

\* faulty variant of Swallowed: a bare "except Exception: pass"
SwallowedAny(exc) == TRUE

\* except (UndefinedError, AttributeError): pass
Swallowed(exc) == exc \in {"UndefinedError", "AttributeError"}

\* faulty variant of AddChildText: the child's text put before the parent's
AddChildTextBefore(leaflet, text) == text \o NL \o leaflet

\* leaflet += "\n" + <the child's script>
AddChildText(leaflet, text) == leaflet \o NL \o text

RECURSIVE _generate_leaflet_string(_, _, _, _, _)
RECURSIVE ChildLoop(_, _, _, _, _)

\* for idx, child in enumerate(m._children.values()): ...   (idx is 1-based
\* here, the f-string gets idx - 1)
ChildLoop(m, idx, base_id, leaflet, mappings) ==
    IF idx > Len(m._children) THEN Result(leaflet, mappings, m, "none")
    ELSE LET r == _generate_leaflet_string(
                      m._children[idx], TRUE,
                      ChildBaseId(base_id, idx - 1), mappings, get_name(m))
             m2 == [m EXCEPT !._children[idx] = r.m]
         IN  IF r.exc = "none"
             THEN ChildLoop(m2, idx + 1, base_id,
                            AddChildText(leaflet, r.leaflet), r.mappings)
             ELSE IF Swallowed(r.exc)
             THEN ChildLoop(m2, idx + 1, base_id, leaflet, r.mappings)
             ELSE Result(<<>>, r.mappings, m2, r.exc)

DualBranch(m, nested, mappings) ==
    LET r1 == _generate_leaflet_string(m.subs[1], nested, DefaultBaseId,
                                       mappings, <<>>)
        m1 == [m EXCEPT !.subs[1] = r1.m]
    IN  IF ~nested \/ r1.exc # "none" THEN [r1 EXCEPT !.m = m1]
        ELSE LET r2 == _generate_leaflet_string(m.subs[2], nested,
                                                DefaultBaseId, r1.mappings, <<>>)
                 m2 == [m1 EXCEPT !.subs[2] = r2.m]
                 s == script(m2, <<>>)
             IN  IF r2.exc # "none" THEN Result(<<>>, r2.mappings, m2, r2.exc)
                 ELSE IF s.exc # "none" THEN Result(<<>>, r2.mappings, m2, s.exc)
                 ELSE Result(AddChildText(r1.leaflet, r2.leaflet) \o s.text,
                             r2.mappings, m2, "none")

\* parent is m._parent.get_name() as the element's template reads it
_generate_leaflet_string(m0, nested, base_id, mappings0, parent) ==
    LET mappings == RecordMapping(mappings0, m0, base_id)
        m == [m0 EXCEPT !._id = base_id]
    IN  IF m._name = DualMapName THEN DualBranch(m, nested, mappings)
        ELSE LET own == RenderOwn(m, parent)
             IN  IF own.exc # "none" THEN Result(<<>>, mappings, m, own.exc)
                 ELSE IF ~nested THEN Result(own.text, mappings, m, "none")
                 ELSE ChildLoop(m, 1, base_id, own.text, mappings)

\* for k, v in mappings.items(): leaflet = leaflet.replace(k, v)
RECURSIVE ReplaceAll(_, _, _)
ReplaceAll(leaflet, mappings, i) ==
    IF i > Len(mappings) THEN leaflet
    ELSE ReplaceAll(Replace(leaflet, mappings[i].k, mappings[i].v), mappings, i + 1)

\* faulty variant of generate_leaflet_string: the replace pass left out
generate_leaflet_string_raw(m, nested, base_id, parent) ==
    _generate_leaflet_string(m, nested, base_id, <<>>, parent)

\* generate_leaflet_string; the record also carries what the call left
\* behind: the mutated tree and the mapping it built
generate_leaflet_string(m, nested, base_id, parent) ==
    LET r == _generate_leaflet_string(m, nested, base_id, <<>>, parent)
    IN  IF r.exc # "none" THEN r
        ELSE [r EXCEPT !.leaflet = ReplaceAll(r.leaflet, r.mappings, 1)]

(***************************************************************************)
(* Specification SpecAsm: the assembler as a function of a freshly built   *)
(* and rendered tree.  Two independent builds of every structure are       *)
(* assembled with the same arguments.                                      *)
(***************************************************************************)
MapDiv == <<"m", "a", "p", "_", "d", "i", "v">>
BaseIds == {DefaultBaseId, MapDiv}

Returned(nested, base_id, r) ==
    [nested |-> nested, base_id |-> base_id, exc |-> r.exc,
     leaflet |-> r.leaflet, mappings |-> r.mappings]

InitAsm ==
    /\ \E s \in RootStructs :
          /\ fig = render(BuildRoot(s, 1))
          /\ twin = render(BuildRoot(s, 2))
    /\ out = None
    /\ twinOut = None
    /\ pc = "built"
    /\ nextId = 0
    /\ payload = None
    /\ hashIn = None

Assemble(nested, base_id) ==
    /\ pc = "built"
    /\ LET r == generate_leaflet_string(fig, nested, base_id, <<>>)
           t == generate_leaflet_string(twin, nested, base_id, <<>>)
       IN  /\ fig' = r.m
           /\ out' = Returned(nested, base_id, r)
           /\ twin' = t.m
           /\ twinOut' = Returned(nested, base_id, t)
    /\ pc' = "returned"
    /\ UNCHANGED <<nextId, payload, hashIn>>

NextAsm == \E nested \in BOOLEAN, base_id \in BaseIds : Assemble(nested, base_id)

SpecAsm == InitAsm /\ [][NextAsm]_vars

(***************************************************************************)
(* Reading a tree and a script in the claims                               *)
(***************************************************************************)
Kids(m) == IF m._name = DualMapName THEN m.subs ELSE m._children

RendersOwn(m) == m.fail \in {"none", "undef"}

RECURSIVE Concat(_)
Concat(ss) == IF ss = <<>> THEN <<>> ELSE Head(ss) \o Concat(Tail(ss))

\* Pre-order walk of a tree as built (o) beside the same tree after the
\* call (n): path, both nodes, whether the traversal enters the node (every
\* ancestor rendered and went on to its loop) and whether it is a sub-map.
RECURSIVE Walk(_, _, _, _, _)
Walk(o, n, p, vis, nested) ==
    <<[p |-> p, o |-> o, n |-> n, vis |-> vis]>>
    \o Concat([i \in 1..Len(Kids(o)) |->
                 Walk(Kids(o)[i], Kids(n)[i], Append(p, i),
                      /\ vis
                      /\ IF o._name = DualMapName THEN nested \/ i = 1
                         ELSE nested /\ RendersOwn(o),
                      nested)])

Range(f) == {f[i] : i \in DOMAIN f}

\* the tree of fig (of twin) as it was built and rendered, before the call
OrigFig == render(BuildRoot(StructOf(fig), 1))
OrigTwin == render(BuildRoot(StructOf(twin), 2))

Nodes == Walk(OrigFig, fig, <<>>, TRUE, out.nested)
Visited == SelectSeq(Nodes, LAMBDA x : x.vis)

IsDualRoot == fig._name = DualMapName

ReturnedOk == pc = "returned" /\ out.exc = "none"

\* "B_i1_..._ik" for the path p = <<i1 + 1, ..., ik + 1>>
RECURSIVE StablePath(_, _)
StablePath(base_id, p) ==
    IF p = <<>> THEN base_id
    ELSE StablePath(base_id, SubSeq(p, 1, Len(p) - 1))
         \o <<"_">> \o IntToStr(p[Len(p)] - 1)

EntriesFor(mappings, k) == {i \in 1..Len(mappings) : mappings[i].k = k}

LineStarts(s) == {i \in 1..Len(s) : i = 1 \/ s[i - 1] = "\n"}

\* where the element's snippet starts in the script: the line that declares
\* its name
DeclPos(s, m) ==
    {i \in LineStarts(s) : StartsWithAt(s, i, get_name(m) \o <<"=">>)}

Count(s, c) == Cardinality({i \in 1..Len(s) : s[i] = c})

IsPrefixPath(p, q) == Len(p) < Len(q) /\ SubSeq(q, 1, Len(p)) = p

\* visited elements whose own snippet is part of the script
Present == SelectSeq(Visited, LAMBDA x : RendersOwn(x.o) /\ x.o._name # DualMapName)

(***************************************************************************)
(* C2 -- mapping completeness: after generate_leaflet_string returns,      *)
(* every element the traversal entered has exactly one mapping entry, from *)
(* the identifier it was built with to its stable identifier (the entries  *)
(* are those of the visited elements, in visiting order), and the returned *)
(* script holds no occurrence of any visited element's original            *)
(* identifier; skipped children included.                                  *)
(***************************************************************************)
C2_MappingComplete ==
    ReturnedOk =>
        /\ \A x \in Range(Visited) :
              /\ Cardinality(EntriesFor(out.mappings, x.o._id)) = 1
              /\ \A i \in EntriesFor(out.mappings, x.o._id) :
                    out.mappings[i].v = x.n._id
              /\ ~Contains(out.leaflet, x.o._id)
        /\ [i \in 1..Len(out.mappings) |-> out.mappings[i].k]
              = [i \in 1..Len(Visited) |-> Visited[i].o._id]

\* a returned script of a tree with a control that captured a layer's
\* original name and with a child that was skipped
C2_Witness ==
    /\ ReturnedOk
    /\ out.nested
    /\ \E x \in Range(Visited) : x.o.cap # <<>> /\ RendersOwn(x.o)
    /\ \E x \in Range(Visited) : x.o.fail = "attr" /\ x.p # <<>>

(***************************************************************************)
(* C3 -- determinism, as amended: two independently built trees of the     *)
(* same structure, assembled with the same arguments, give byte-identical  *)
(* scripts (or raise the same error) and mappings with the same stable     *)
(* identifiers in the same order; the mappings' keys are each tree's own   *)
(* original identifiers.                                                   *)
(***************************************************************************)
C3_Deterministic ==
    pc = "returned" =>
        /\ out.exc = twinOut.exc
        /\ out.leaflet = twinOut.leaflet
        /\ [i \in 1..Len(out.mappings) |-> out.mappings[i].v]
              = [i \in 1..Len(twinOut.mappings) |-> twinOut.mappings[i].v]

\* C3 as stated: byte-identical scripts and identical mappings
C3_Original ==
    pc = "returned" =>
        /\ out.leaflet = twinOut.leaflet
        /\ Range(out.mappings) = Range(twinOut.mappings)

\* both trees returned a script in which a control's captured names had to
\* be rewritten, from different original identifiers
C3_Witness ==
    /\ ReturnedOk
    /\ out.nested
    /\ \E x \in Range(Visited) : x.o.cap # <<>> /\ RendersOwn(x.o)
    /\ \A i \in 1..Len(out.mappings) : out.mappings[i].k # twinOut.mappings[i].k

(***************************************************************************)
(* C4 -- traversal order, as amended: in the script returned with          *)
(* nested=True, every ordinary element's snippet starts before the snippet *)
(* of each of its descendants and siblings' snippets appear in insertion   *)
(* order; the dual-composite's own snippet comes after the snippets of     *)
(* both sub-maps and of all their descendants.                             *)
(***************************************************************************)
OrdinaryOrder ==
    /\ \A x \in Range(Present) : Cardinality(DeclPos(out.leaflet, x.n)) = 1
    /\ \A x, y \in Range(Present) :
          \A i \in DeclPos(out.leaflet, x.n), j \in DeclPos(out.leaflet, y.n) :
             /\ IsPrefixPath(x.p, y.p) => i < j
             /\ (/\ Len(x.p) = Len(y.p) /\ Len(x.p) > 0
                 /\ SubSeq(x.p, 1, Len(x.p) - 1) = SubSeq(y.p, 1, Len(y.p) - 1)
                 /\ x.p[Len(x.p)] < y.p[Len(y.p)]) => i < j

SyncPos == FindFrom(out.leaflet, 1, SyncSnippet(fig))

ExpectedExc ==
    IF OrigFig.fail = "attr" THEN "AttributeError"
    ELSE IF \E x \in Range(Visited) : x.o.fail = "other" THEN "OtherError"
    ELSE "none"

C8_ErrorRecovery ==
    (pc = "returned" /\ out.nested) =>
        /\ out.exc = ExpectedExc
        /\ out.exc = "none" =>
              /\ \A x \in Range(Present) :
                    Cardinality(DeclPos(out.leaflet, x.n)) >= 1
              \* (the two sub-maps of a DualMap give their children the same
              \* names, so a name tells a skipped child only under a Map)
              /\ ~IsDualRoot =>
                    \A x \in Range(Visited) :
                        ~RendersOwn(x.o) => DeclPos(out.leaflet, x.n) = {}
              /\ Count(out.leaflet, "\n") + 1 = Len(Present)

\* a child was skipped, the sibling after it and a recovered element are in
\* the script
C8_Witness ==
    /\ ReturnedOk
    /\ out.nested
    /\ \E x, y \in Range(Visited) :
          /\ x.o.fail \in {"attr", "undef2"}
          /\ Len(x.p) = 1 /\ Len(y.p) = 1 /\ x.p[1] < y.p[1]
          /\ y.o.fail = "undef"
          /\ DeclPos(out.leaflet, y.n) # {}

(***************************************************************************)
(* C9 -- position-derived identifiers: after the call with nested=True and *)
(* base identifier B the root is B and the visited element at child-index  *)
(* path i1..ik (0-based, skipped children counted) is B_i1_..._ik; every   *)
(* visited element's mapping entry is keyed by the identifier it had on    *)
(* entry.  Elements the traversal never entered keep their identifier.     *)
(* (Under a DualMap no element is reached by a child-index path: the       *)
(* sub-maps are reached through m1 and m2.)                                *)
(***************************************************************************)
C9_PositionIds ==
    (ReturnedOk /\ out.nested) =>
        /\ fig._id = out.base_id
        /\ \A x \in Range(Nodes) :
              IF x.vis
              THEN /\ ~IsDualRoot => x.n._id = StablePath(out.base_id, x.p)
                   /\ \E i \in 1..Len(out.mappings) :
                         out.mappings[i] = [k |-> x.o._id, v |-> x.n._id]
              ELSE /\ x.n._id = x.o._id
                   /\ EntriesFor(out.mappings, x.o._id) = {}

\* a skipped first child, then a sibling with a child of its own
C9_Witness ==
    /\ ReturnedOk
    /\ out.nested
    /\ ~IsDualRoot
    /\ Len(fig._children) >= 2
    /\ fig._children[1].fail = "attr"
    /\ Len(fig._children[2]._children) >= 1
    /\ RendersOwn(fig._children[2])

(***************************************************************************)
(* generate_js_hash                                                        *)
(***************************************************************************)
LowerAlnum == LowerSet \cup DigitSet

\* end (exclusive) of the longest run of characters of cls starting at i
RECURSIVE RunEnd(_, _, _)
RunEnd(s, i, cls) ==
    IF i <= Len(s) /\ s[i] \in cls THEN RunEnd(s, i + 1, cls) ELSE i

\* re.sub(r"(_[a-z0-9]+)", "", s): M is where "_" and a class character
\* stand; matches are taken left to right, each as long as it can be
RECURSIVE SubIdent(_, _, _)
SubIdent(s, i, M) ==
    LET N == {j \in M : j >= i}
    IN  IF N = {} THEN SubSeq(s, i, Len(s))
        ELSE SubSeq(s, i, Min(N) - 1)
             \o SubIdent(s, RunEnd(s, Min(N) + 1, LowerAlnum), M)

IdentStarts(s) ==
    {j \in 1..(Len(s) - 1) : s[j] = "_" /\ s[j + 1] \in LowerAlnum}

MapsSlash == <<"m", "a", "p", "s", "/">>

\* re.sub(r"(maps\/[-a-z0-9]+\/)", "", s): the class holds no "/", so the
\* greedy run is the only one a "/" can follow
UrlMatchAt(s, i) ==
    LET e == RunEnd(s, i + 5, LowerAlnum \cup {"-"})
    IN  /\ StartsWithAt(s, i, MapsSlash)
        /\ e > i + 5
        /\ e <= Len(s)
        /\ s[e] = "/"

RECURSIVE SubUrl(_, _, _)
SubUrl(s, i, M) ==
    LET N == {j \in M : j >= i}
    IN  IF N = {} THEN SubSeq(s, i, Len(s))
        ELSE SubSeq(s, i, Min(N) - 1)
             \o SubUrl(s, RunEnd(s, Min(N) + 5, LowerAlnum \cup {"-"}) + 1, M)

UrlStarts(s) == {j \in 1..Len(s) : UrlMatchAt(s, j)}

\* str(key)
PyStr(key) == IF key = None THEN <<"N", "o", "n", "e">> ELSE key

\* hashlib.sha256(...).hexdigest(), taken as injective: the digest stands
\* for the text it was computed from
sha256(text) == [sha256 |-> text]

generate_js_hash(js_string, key) ==
    LET standardized_js ==
            SubIdent(js_string, 1, IdentStarts(js_string)) \o PyStr(key)
    IN  sha256(SubUrl(standardized_js, 1, UrlStarts(standardized_js))
               \o PyStr(key))

(***************************************************************************)
(* Specification SpecHash: generate_js_hash on scripts that are two        *)
(* fillings of one template.  A template is literal text with holes: "id"  *)
(* is a random suffix of a variable name ("_" and a lower-case             *)
(* alphanumeric run, after a name character), "url" is a tile path segment *)
(* "maps/<random>/" (at the start of the text or after a "/").             *)
(***************************************************************************)
MaxTemplate == 3     \* pieces of a script template

Lit(text) == [t |-> "lit", s |-> text]
Pieces ==
    {Lit(<<"x">>), Lit(<<"_">>), Lit(<<"/">>), Lit(<<"=">>), Lit(MapsSlash),
     [t |-> "id", s |-> <<>>], [t |-> "url", s |-> <<>>]}

WellFormed(tmpl) ==
    \A i \in 1..Len(tmpl) :
        /\ tmpl[i].t = "id" => i > 1 /\ tmpl[i - 1] = Lit(<<"x">>)
        /\ tmpl[i].t = "url" =>
              i = 1 \/ tmpl[i - 1] \in {Lit(<<"/">>), Lit(MapsSlash)}

Templates ==
    {tmpl \in UNION {[1..n -> Pieces] : n \in 1..MaxTemplate} : WellFormed(tmpl)}

IdFills == <<<<"a", "1">>, <<"b">>>>
UrlFills == <<<<"a", "-", "1">>, <<"b">>>>

\* the script a template stands for when every hole takes its f-th filling
Fill(tmpl, f) ==
    Concat([i \in 1..Len(tmpl) |->
              CASE tmpl[i].t = "lit" -> tmpl[i].s
                [] tmpl[i].t = "id" -> US \o IdFills[f]
                [] OTHER -> MapsSlash \o UrlFills[f] \o <<"/">>])

Keys == {None, <<"N", "o", "n", "e">>, <<"k">>}

InitHash ==
    /\ hashIn \in Templates
    /\ out = None
    /\ pc = "hash_ready"
    /\ fig = None
    /\ twin = None
    /\ twinOut = None
    /\ nextId = 0
    /\ payload = None

\* hash two fillings of the template under one key, and one of them under
\* a second key
Hash(f1, f2, k1, k2) ==
    /\ pc = "hash_ready"
    /\ LET a == Fill(hashIn, f1)
           b == Fill(hashIn, f2)
       IN  out' = [a |-> a, b |-> b, k1 |-> k1, k2 |-> k2,
                   h_a_k1 |-> generate_js_hash(a, k1),
                   h_b_k1 |-> generate_js_hash(b, k1),
                   h_a_k2 |-> generate_js_hash(a, k2)]
    /\ pc' = "hashed"
    /\ UNCHANGED <<fig, twin, twinOut, nextId, payload, hashIn>>

NextHash == \E f1, f2 \in {1, 2}, k1, k2 \in Keys : Hash(f1, f2, k1, k2)

SpecHash == InitHash /\ [][NextHash]_vars

(***************************************************************************)
(* C5 -- key sensitivity: for one script and two different keys (strings   *)
(* or None) the digests differ.                                            *)
(***************************************************************************)
C5_KeySensitive ==
    (pc = "hashed" /\ out.k1 # out.k2) => out.h_a_k1 # out.h_a_k2

(***************************************************************************)
(* C6 -- hash stability: two scripts that differ only in the random        *)
(* suffixes of variable names and in the random part of tile path segments *)
(* have the same digest under the same key.                                *)
(***************************************************************************)
C6_HashStable ==
    pc = "hashed" => out.h_a_k1 = out.h_b_k1

(***************************************************************************)
(* st_folium                                                               *)
(***************************************************************************)
MapDiv2 ==
    <<"m", "a", "p", "_", "d", "i", "v", "2">>
AlertCoords ==
    <<"a", "l", "e", "r", "t", "(", "c", "o", "o", "r", "d", "s", ")",
      ";">>
DrawnItems ==
    <<"d", "r", "a", "w", "n", "I", "t", "e", "m", "s">>
DrawnItemsDecl ==
    <<"\n", "v", "a", "r", " ", "d", "r", "a", "w", "n", "I", "t", "e",
      "m", "s", " ", "=", " ", "[", "]", ";">>
FeatureGroupId ==
    <<"f", "e", "a", "t", "u", "r", "e", "_", "g", "r", "o", "u", "p">>
AddLayerScript ==
    <<"\n", " ", " ", " ", " ", " ", " ", " ", " ", "m", "a", "p", "_",
      "d", "i", "v", ".", "a", "d", "d", "L", "a", "y", "e", "r", "(",
      "f", "e", "a", "t", "u", "r", "e", "_", "g", "r", "o", "u", "p",
      "_", "f", "e", "a", "t", "u", "r", "e", "_", "g", "r", "o", "u",
      "p", ")", ";", "\n", " ", " ", " ", " ", " ", " ", " ", " ", "w",
      "i", "n", "d", "o", "w", ".", "f", "e", "a", "t", "u", "r", "e",
      "_", "g", "r", "o", "u", "p", " ", "=", " ", "f", "e", "a", "t",
      "u", "r", "e", "_", "g", "r", "o", "u", "p", "_", "f", "e", "a",
      "t", "u", "r", "e", "_", "g", "r", "o", "u", "p", ";", "\n", " ",
      " ", " ", " ", " ", " ", " ", " ">>

\* child.add_to(m): m._children[child.get_name()] = child on an ordered
\* dict, so a child of the same name is replaced in place
add_to(child, m) ==
    LET c == [child EXCEPT !.ckey = get_name(child)]
        at == {i \in 1..Len(m._children) : m._children[i].ckey = c.ckey}
    IN  IF at = {} THEN [m EXCEPT !._children = Append(@, c)]
        ELSE [m EXCEPT !._children =
                 [i \in 1..Len(@) |-> IF i \in at THEN c ELSE @[i]]]

\* feature_group_to_add is None (no element) or one FeatureGroup
NoFeatureGroup == <<>>

\* the tree holds the very object generate_leaflet_string has just renamed:
\* the entry stored under ckey becomes the renamed element m
Renamed(fig2, ckey, m) ==
    [fig2 EXCEPT
        !._children[CHOOSE i \in 1..Len(fig2._children) :
                        fig2._children[i].ckey = ckey] =
            [m EXCEPT !.ckey = ckey]]

\* feature_group_string: the group's script with the map's full id replaced
\* by "map_div", and the addLayer lines after it
FeatureGroupString(r, fig4) ==
    [fig |-> fig4, exc |-> r.exc,
     feature_group |->
         IF r.exc # "none" THEN None
         ELSE Replace(r.leaflet, get_full_id(fig4), MapDiv) \o AddLayerScript]

GroupGenerated(fig2, ckey, r) ==
    FeatureGroupString(r, Renamed(fig2, ckey, r.m))

\* feature_group_to_add.add_to(fig), then the group's own script
GroupAdded(fig2, fg) ==
    GroupGenerated(fig2, get_name(fg),
        generate_leaflet_string(fg, TRUE, FeatureGroupId, get_name(fig2)))

\* the tree with the group added, and feature_group_string
AddFeatureGroup(fig1, feature_group_to_add) ==
    IF feature_group_to_add = NoFeatureGroup
    THEN [fig |-> fig1, exc |-> "none", feature_group |-> None]
    ELSE GroupAdded(
             add_to([feature_group_to_add[1] EXCEPT !._id = FeatureGroupId], fig1),
             [feature_group_to_add[1] EXCEPT !._id = FeatureGroupId])

\* a DualMap's second sub-map is renamed to "map_div2"
RenameSecond(r) ==
    IF r.m._name = DualMapName
    THEN Replace(r.leaflet, get_full_id(r.m.subs[2]), MapDiv2)
    ELSE r.leaflet

StripAlert(leaflet) == Replace(leaflet, AlertCoords, <<>>)

EnsureDrawnItems(leaflet) ==
    IF Contains(leaflet, DrawnItems) THEN leaflet
    ELSE leaflet \o DrawnItemsDecl

\* what the call leaves behind and hands to _component_func (exc # "none":
\* the call raised instead).  html, default, height, width and
\* returned_objects do not depend on the script and are left out.
Component(r, a, leaflet, key, zoom, center, feature_group_to_add) ==
    IF r.exc # "none"
    THEN [fig |-> r.m, payload |-> [exc |-> r.exc, st_key |-> key]]
    ELSE IF a.exc # "none"
    THEN [fig |-> a.fig, payload |-> [exc |-> a.exc, st_key |-> key]]
    ELSE [fig |-> a.fig,
          payload |->
             [exc |-> "none", st_key |-> key,
              script |-> leaflet,
              id |-> IF feature_group_to_add = NoFeatureGroup
                     THEN get_full_id(r.m)
                     ELSE get_full_id(a.fig),
              key |-> generate_js_hash(leaflet, key),
              zoom |-> zoom, center |-> center,
              feature_group |-> a.feature_group]]

\* the call after generate_leaflet_string(fig, base_id="map_div") gave r
Generated(r, key, zoom, center, feature_group_to_add) ==
    Component(r, AddFeatureGroup(r.m, feature_group_to_add),
              EnsureDrawnItems(StripAlert(RenameSecond(r))),
              key, zoom, center, feature_group_to_add)

st_folium(fig0, key, zoom, center, feature_group_to_add) ==
    Generated(generate_leaflet_string(render(fig0), TRUE, MapDiv, <<>>),
              key, zoom, center, feature_group_to_add)

(***************************************************************************)
(* Specification Spec: st_folium invoked again and again on one map object *)
(***************************************************************************)
MaxCalls == 2        \* st_folium invocations on the map object

StKidSeqs ==
    UNION {KidSeqs({<<"layer", "none">>, <<"control", "none">>}, g) :
             g \in UNION {Shapes(n, 2) : n \in 0..2}}
StStructs ==
    {Struct("map", "none", ks, <<>>) : ks \in StKidSeqs}
    \cup {Struct("dualmap", "none", <<>>, ss) :
            ss \in UNION {KidSeqs({<<"map", "none">>}, g) : g \in Shapes(2, 3)}}

\* the feature groups a caller may pass: a new FeatureGroup, empty or with
\* one layer in it
FeatureGroups ==
    {Node(FeatureGroupName, RandomId(14), "none", ks, <<>>) :
        ks \in {<<>>, <<Node(LayerName, RandomId(15), "none", <<>>, <<>>)>>}}

Init ==
    /\ \E s \in StStructs : fig = BuildRoot(s, 1)
    /\ payload = None
    /\ pc = 0
    /\ out = None
    /\ twin = None
    /\ twinOut = None
    /\ nextId = 0
    /\ hashIn = None

StFolium(key, zoom, center, feature_group_to_add) ==
    /\ pc < MaxCalls
    /\ feature_group_to_add # NoFeatureGroup => fig._name = MapName
    /\ LET c == st_folium(fig, key, zoom, center, feature_group_to_add)
       IN  /\ fig' = c.fig
           /\ payload' = c.payload
    /\ pc' = pc + 1
    /\ UNCHANGED <<out, twin, twinOut, nextId, hashIn>>

\* (zoom, center) as a caller passes them: neither, a zoom, a center
Overrides == {<<None, None>>, <<<<"8">>, None>>, <<None, <<"c">>>>}

Next ==
    \E key \in {None, <<"k">>}, zc \in Overrides,
       feature_group_to_add \in {NoFeatureGroup} \cup {<<g>> : g \in FeatureGroups} :
        StFolium(key, zc[1], zc[2], feature_group_to_add)

Spec == Init /\ [][Next]_vars

(***************************************************************************)
(* C1 -- dual-composite through st_folium: the final script names the two  *)
(* sub-maps with two distinct stable identifiers and holds no occurrence   *)
(* of either sub-map's original identifier.                                *)
(***************************************************************************)
\* the names the script declares for maps: each line "map_...=" up to "="
MapDecls(s) ==
    {SubSeq(s, i, FindFrom(s, i, <<"=">>) - 1) :
        i \in {j \in LineStarts(s) : StartsWithAt(s, j, MapName \o US)}}

C1_DualDistinct ==
    (pc > 0 /\ fig._name = DualMapName /\ payload.exc = "none") =>
        /\ Cardinality(MapDecls(payload.script)) = 2
        /\ \A i \in 1..2 :
              ~Contains(payload.script,
                        render(BuildRoot(StructOf(fig), 1)).subs[i]._id)

(***************************************************************************)
(* C7 -- no re-mount on dynamic overrides: from one invocation on the map  *)
(* object to the next with the same key, whatever zoom, center and         *)
(* feature_group_to_add are, the key handed to the component is unchanged. *)
(***************************************************************************)
C7_NoRemount ==
    [][(/\ pc > 0
        /\ payload.exc = "none"
        /\ payload'.exc = "none"
        /\ payload'.st_key = payload.st_key)
       => payload'.key = payload.key]_vars

(***************************************************************************)
(* Specification SpecRe: one map object re-rendered again and again, with  *)
(* children appended to it and removed from it between the calls.          *)
(***************************************************************************)
InitRe ==
    /\ fig = Node(MapName, RandomId(0), "none", <<>>, <<>>)
    /\ nextId = 1
    /\ pc = "built"
    /\ out = None
    /\ twin = None
    /\ twinOut = None
    /\ payload = None
    /\ hashIn = None

\* a new element; the library hands it the next random identifier
AppendChild(name) ==
    /\ nextId <= MaxOps
    /\ fig' = add_to(Node(name, RandomId(nextId), "none", <<>>, <<>>), fig)
    /\ nextId' = nextId + 1
    /\ pc' = "edited"
    /\ UNCHANGED <<out, twin, twinOut, payload, hashIn>>

\* del fig._children[name] for the i-th child
RemoveChild(i) ==
    /\ i \in 1..Len(fig._children)
    /\ fig' = [fig EXCEPT !._children =
                  [j \in 1..(Len(@) - 1) |-> IF j < i THEN @[j] ELSE @[j + 1]]]
    /\ pc' = "edited"
    /\ UNCHANGED <<out, nextId, twin, twinOut, payload, hashIn>>

\* one re-render cycle as st_folium runs it: fig.render(), then
\* generate_leaflet_string(fig, base_id="map_div")
Rerender ==
    /\ LET r == generate_leaflet_string(render(fig), TRUE, MapDiv, <<>>)
       IN  /\ fig' = r.m
           /\ out' = Returned(TRUE, MapDiv, r)
    /\ pc' = "returned"
    /\ UNCHANGED <<nextId, twin, twinOut, payload, hashIn>>

NextRe ==
    \/ \E name \in {LayerName, ControlName} : AppendChild(name)
    \/ \E i \in 1..MaxOps : RemoveChild(i)
    \/ Rerender

SpecRe == InitRe /\ [][NextRe]_vars

(***************************************************************************)
(* C10 -- assembly is a pure function of the tree's current structure      *)
(* across re-renders: whatever calls, appends and removals came before,    *)
(* the script a call returns is the script a freshly built tree of the     *)
(* same structure returns for the same base_id.                            *)
(***************************************************************************)
FreshScript(m, base_id) ==
    generate_leaflet_string(render(BuildRoot(StructOf(m), 1)), TRUE,
                            base_id, <<>>).leaflet

C10_PureAcrossRerenders ==
    (pc = "returned" /\ out.exc = "none") =>
        out.leaflet = FreshScript(fig, out.base_id)

====
